---- MODULE Spec2Model ----
(***************************************************************************)
(* Model of src/index.ts: an express server with an API-key gate, a        *)
(* multer disk-storage upload endpoint and a bulk delete endpoint.         *)
(*                                                                         *)
(* A JavaScript string is a sequence of one-character strings, so that     *)
(* toLowerCase, the two regular-expression replacements, split(","),       *)
(* path.join, path.extname and path.basename are computed character by     *)
(* character, as the code computes them.  A character outside ASCII is     *)
(* written by its code point ("U+0130").                                    *)
(***************************************************************************)
EXTENDS Integers, Sequences, FiniteSets, TLC

\* ------------------------------------------------------------------ bounds
\* Longest caller-supplied string the pure-function specifications enumerate.
MaxLen == 4
\* Largest value of the millisecond clock (Date.now()).
MaxNow == 1
\* Most file parts the two requests send, taken together.
MaxFiles == 2

\* ------------------------------------------------------------- JS strings

LowerAZ ==
  << "a","b","c","d","e","f","g","h","i","j","k","l","m",
     "n","o","p","q","r","s","t","u","v","w","x","y","z" >>

UpperAZ ==
  << "A","B","C","D","E","F","G","H","I","J","K","L","M",
     "N","O","P","Q","R","S","T","U","V","W","X","Y","Z" >>

DigitChars == << "0","1","2","3","4","5","6","7","8","9" >>

Range(f) == { f[i] : i \in DOMAIN f }

\* [a-zA-Z0-9]
Alnum == Range(LowerAZ) \cup Range(UpperAZ) \cup Range(DigitChars)

\* [a-z0-9]
LowerAlnum == Range(LowerAZ) \cup Range(DigitChars)

RECURSIVE Flatten(_)
Flatten(ss) == IF ss = << >> THEN << >> ELSE Head(ss) \o Flatten(Tail(ss))

\* String.prototype.toLowerCase on one character.  Two characters outside
\* ASCII lower-case into ASCII letters: KELVIN SIGN to "k", and LATIN CAPITAL
\* LETTER I WITH DOT ABOVE to "i" followed by COMBINING DOT ABOVE.
lowerChar(c) ==
  IF c \in Range(UpperAZ)
    THEN << LowerAZ[CHOOSE i \in DOMAIN UpperAZ : UpperAZ[i] = c] >>
    ELSE IF c = "U+212A" THEN << "k" >>
    ELSE IF c = "U+0130" THEN << "i", "U+0307" >>
    ELSE << c >>

toLowerCase(s) == Flatten([i \in DOMAIN s |-> lowerChar(s[i])])

\* s.replace(/[^keep]+/g, r): every maximal run of characters outside keep
\* becomes one r.
RECURSIVE replaceRuns(_, _, _)
replaceRuns(s, keep, r) ==
  IF s = << >> THEN << >>
  ELSE IF Head(s) \in keep THEN << Head(s) >> \o replaceRuns(Tail(s), keep, r)
  ELSE IF Len(s) > 1 /\ s[2] \notin keep THEN replaceRuns(Tail(s), keep, r)
  ELSE << r >> \o replaceRuns(Tail(s), keep, r)

\* s.split(sep) for a one-character separator.
RECURSIVE split(_, _)
split(s, sep) ==
  IF \A i \in DOMAIN s : s[i] # sep THEN << s >>
  ELSE LET k == CHOOSE i \in DOMAIN s :
                  s[i] = sep /\ \A j \in 1..(i - 1) : s[j] # sep
       IN  << SubSeq(s, 1, k - 1) >> \o split(SubSeq(s, k + 1, Len(s)), sep)

RECURSIVE joinWith(_, _)
joinWith(ss, sep) ==
  IF ss = << >> THEN << >>
  ELSE IF Len(ss) = 1 THEN ss[1]
  ELSE ss[1] \o << sep >> \o joinWith(Tail(ss), sep)

startsWith(s, p) == Len(p) <= Len(s) /\ SubSeq(s, 1, Len(p)) = p

endsWith(s, p) ==
  Len(p) <= Len(s) /\ SubSeq(s, Len(s) - Len(p) + 1, Len(s)) = p

\* s.replace(pat, rep) with a string pattern: the first occurrence only.
replaceFirst(s, pat, rep) ==
  LET at == { i \in 1..(Len(s) - Len(pat) + 1) :
                SubSeq(s, i, i + Len(pat) - 1) = pat }
  IN  IF pat = << >> THEN rep \o s
      ELSE IF at = {} THEN s
      ELSE LET k == CHOOSE i \in at : \A j \in at : i <= j
           IN  SubSeq(s, 1, k - 1) \o rep \o SubSeq(s, k + Len(pat), Len(s))

\* Number to decimal string, as a template literal renders Date.now().
RECURSIVE toDigits(_)
toDigits(n) ==
  IF n < 10 THEN << DigitChars[n + 1] >>
  ELSE toDigits(n \div 10) \o << DigitChars[(n % 10) + 1] >>

\* ------------------------------------------------------ node:path (posix)
\* normalizeString: resolves "." and ".." segments and drops empty ones.
RECURSIVE normalizeSegments(_, _, _)
normalizeSegments(segs, acc, allowAboveRoot) ==
  IF segs = << >> THEN acc
  ELSE LET h == Head(segs)
           t == Tail(segs)
       IN  IF h = << >> \/ h = << "." >>
             THEN normalizeSegments(t, acc, allowAboveRoot)
           ELSE IF h = << ".", "." >>
             THEN IF acc # << >> /\ acc[Len(acc)] # << ".", "." >>
                    THEN normalizeSegments(t, SubSeq(acc, 1, Len(acc) - 1),
                                           allowAboveRoot)
                  ELSE IF allowAboveRoot
                    THEN normalizeSegments(t, Append(acc, h), allowAboveRoot)
                  ELSE normalizeSegments(t, acc, allowAboveRoot)
           ELSE normalizeSegments(t, Append(acc, h), allowAboveRoot)

\* path.normalize
normalize(p) ==
  IF p = << >> THEN << "." >>
  ELSE LET isAbsolute == p[1] = "/"
           trailingSeparator == p[Len(p)] = "/"
           body == joinWith(normalizeSegments(split(p, "/"), << >>,
                                              ~isAbsolute), "/")
       IN  IF body = << >>
             THEN IF isAbsolute THEN << "/" >>
                  ELSE IF trailingSeparator THEN << ".", "/" >> ELSE << "." >>
           ELSE (IF isAbsolute THEN << "/" >> ELSE << >>) \o body
                \o (IF trailingSeparator THEN << "/" >> ELSE << >>)

\* path.join: the non-empty arguments joined by "/" and normalized.
pathJoin(args) ==
  LET parts == SelectSeq(args, LAMBDA a : a # << >>)
  IN  IF parts = << >> THEN << "." >> ELSE normalize(joinWith(parts, "/"))

\* The last path component of p, trailing separators ignored.
RECURSIVE stripTrailingSlashes(_)
stripTrailingSlashes(p) ==
  IF p # << >> /\ p[Len(p)] = "/"
    THEN stripTrailingSlashes(SubSeq(p, 1, Len(p) - 1))
    ELSE p

lastComponent(p) ==
  LET q == stripTrailingSlashes(p)
      parts == split(q, "/")
  IN  parts[Len(parts)]

\* path.extname: from the last "." of the last component to its end; empty
\* when there is no ".", when that "." opens the component, and for "..".
extname(p) ==
  LET c == lastComponent(p)
      dots == { i \in DOMAIN c : c[i] = "." }
  IN  IF dots = {} THEN << >>
      ELSE LET startDot == CHOOSE i \in dots : \A j \in dots : j <= i
           IN  IF startDot = 1 \/ c = << ".", "." >> THEN << >>
               ELSE SubSeq(c, startDot, Len(c))

\* path.basename(p, suffix): the last component, without suffix when the
\* component ends with it and is longer than it.
basename(p, suffix) ==
  LET c == lastComponent(p)
  IN  IF suffix # << >> /\ Len(suffix) <= Len(p) /\ suffix = p THEN << >>
      ELSE IF suffix # << >> /\ endsWith(c, suffix) /\ c # suffix
        THEN SubSeq(c, 1, Len(c) - Len(suffix))
      ELSE c

\* path.dirname of an absolute normalized file path.
dirname(p) ==
  LET parts == split(stripTrailingSlashes(p), "/")
  IN  IF Len(parts) <= 2 THEN << "/" >>
      ELSE joinWith(SubSeq(parts, 1, Len(parts) - 1), "/")

\* Whether location p is directory root or lies below it.
isInside(p, root) ==
  LET q == stripTrailingSlashes(p)
  IN  q = root \/ startsWith(q, root \o << "/" >>)

\* ------------------------------------------------------------ JS values
\* A header, field or query value: undefined, a string, or an array of
\* strings (a repeated query parameter).
Undef == [t |-> "undefined"]

Str(s) == [t |-> "string", v |-> s]

Arr(ss) == [t |-> "array", v |-> ss]

\* JavaScript truthiness: undefined and "" are falsy, every array is truthy.
truthy(x) == x.t = "array" \/ (x.t = "string" /\ x.v # << >>)

\* ------------------------------------------------------------- the server
\* __dirname of the running module, and the literals the code joins to it.
ServerDir == << "/", "a", "p", "p", "/", "s", "r", "c" >>

UpPublic == << ".", ".", "/", "p", "u", "b", "l", "i", "c" >>

UpPublicUploads == UpPublic \o << "/", "u", "p", "l", "o", "a", "d", "s" >>

\* path.join(__dirname, "../public"): the directory delete paths are joined
\* to, and the prefix the upload response strips.
publicDir == pathJoin(<< ServerDir, UpPublic >>)

\* path.join(__dirname, "../public/uploads"): the upload root.
uploadRoot == pathJoin(<< ServerDir, UpPublicUploads >>)

\* validateApiKey: TRUE when the request is rejected with 403.
rejectsNoAbsenceTest(xApiKey, envKey) == xApiKey # envKey

rejects(xApiKey, envKey) == ~truthy(xApiKey) \/ xApiKey # envKey

\* storage.destination, lines 33-38: the normalized subpath.
normalizedPathKeepsDots(bodyPath, queryPath) ==
  LET userPath == IF truthy(bodyPath) THEN bodyPath.v
                  ELSE IF truthy(queryPath) THEN queryPath.v
                  ELSE << >>
  IN  replaceRuns(toLowerCase(userPath), Alnum \cup {"/", "."}, "/")

normalizedPath(bodyPath, queryPath) ==
  LET userPath == IF truthy(bodyPath) THEN bodyPath.v
                  ELSE IF truthy(queryPath) THEN queryPath.v
                  ELSE << >>
  IN  replaceRuns(toLowerCase(userPath), Alnum \cup {"/"}, "/")

\* storage.destination, lines 41-45: the directory handed to multer.
destination(bodyPath, queryPath) ==
  pathJoin(<< ServerDir, UpPublicUploads, normalizedPath(bodyPath, queryPath) >>)

\* storage.filename.
filenameLowerCased(originalname, t) ==
  LET extension == extname(originalname)
      originalName == replaceRuns(toLowerCase(basename(originalname, extension)),
                                  Alnum, "-")
  IN  toDigits(t) \o << "-" >> \o originalName \o extension

filenameNoTimestamp(originalname, t) ==
  LET extension == extname(originalname)
      originalName == replaceRuns(basename(originalname, extension), Alnum, "-")
  IN  originalName \o extension

filename(originalname, t) ==
  LET extension == extname(originalname)
      originalName == replaceRuns(basename(originalname, extension), Alnum, "-")
  IN  toDigits(t) \o << "-" >> \o originalName \o extension

\* The file object multer's disk storage builds for one stored part.
storedFile(originalname, dest, t) ==
  [ originalname |-> originalname,
    filename     |-> filename(originalname, t),
    destination  |-> dest,
    path         |-> pathJoin(<< dest, filename(originalname, t) >>) ]

\* One element of the upload response's files list.
fileRecord(file) ==
  [ originalname |-> file.originalname,
    filename     |-> file.filename,
    path         |-> replaceFirst(file.path, publicDir, << >>) ]

\* The delete handler's filesArray and files (lines 100-113).
filesArray(filenames) ==
  IF filenames.t = "array" THEN filenames.v ELSE split(filenames.v, ",")

deleteTargets(filenames) ==
  LET fa == filesArray(filenames)
  IN  [i \in DOMAIN fa |-> pathJoin(<< ServerDir, UpPublic, fa[i] >>)]

\* ----------------------------------------------------------------- state
VARIABLES
  now,      \* Date.now(), in milliseconds
  envKey,   \* process.env.API_KEY
  files,    \* the regular files on disk: path |-> what wrote it
  dirs,     \* the directories on disk
  reqs,     \* the requests received, by arrival number
  arg,      \* pure-function specifications: the caller-supplied string
  ret       \* pure-function specifications: what the code computed from it

vars == << now, envKey, files, dirs, reqs, arg, ret >>

\* Two requests, so that the steps of any two handlers interleave.
ReqIds == { 1, 2 }

\* ---------------------------------------------------------------- inputs
GoodKey == Str(<< "k" >>)

\* x-api-key headers that are not the configured key: absent, empty, and
\* the key in another letter case.
BadHeaders == { Undef, Str(<< >>), Str(<< "K" >>) }

\* process.env.API_KEY: configured, or missing from the environment.
EnvKeys == { GoodKey, Undef }

\* Original file names: one with a space in its base, one with a comma in
\* its extension.
NameSpace == << "A", " ", ".", "T" >>

NameComma == << "A", "-", ".", "," >>

FileNames == { NameSpace, NameComma }

BodyPath == << ".", ".", "/", "E" >>

QueryPath == << "q" >>

EnvFile == << "/", "a", "p", "p", "/", ".", "e", "n", "v" >>

UpEnv == << ".", ".", "/", ".", "e", "n", "v" >>

Idle ==
  [ kind |-> "none", key |-> Undef, multipart |-> FALSE,
    queryPath |-> Undef, filenames |-> Undef,
    pc |-> "idle", bodyPath |-> Undef, parsed |-> << >>,
    hasFiles |-> FALSE, files |-> << >>,
    targets |-> << >>, results |-> << >>, existed |-> {},
    status |-> 0, resFiles |-> << >>, errors |-> << >>, ops |-> {} ]

UploadReq(key, multipart, queryPath) ==
  [ Idle EXCEPT !.kind = "upload", !.key = key, !.multipart = multipart,
                !.queryPath = queryPath, !.pc = "received" ]

DeleteReq(key, filenames) ==
  [ Idle EXCEPT !.kind = "delete", !.key = key, !.filenames = filenames,
                !.pc = "received" ]

\* POST /upload requests, headers and query: a body that is not multipart, a
\* multipart body with or without ?path=, and one probe per bad header.  The
\* parts of a multipart body arrive one by one (MulterField, MulterFile).
UploadInputs ==
  { UploadReq(GoodKey, FALSE, Undef) }
  \cup { UploadReq(GoodKey, TRUE, q) : q \in { Undef, Str(QueryPath) } }
  \cup { UploadReq(k, TRUE, Undef) : k \in BadHeaders }

\* The path values the finished uploads have returned to their callers.
returnedPaths ==
  UNION { { reqs[u].resFiles[i].path : i \in DOMAIN reqs[u].resFiles } :
          u \in { x \in ReqIds : reqs[x].kind = "upload" /\ reqs[x].status = 200 } }

\* DELETE /delete requests: no filenames, an empty one, a file outside the
\* upload root, a list whose first path does not exist, the same path twice
\* as a repeated parameter, every path an upload has returned, and one probe
\* per bad header.
DeleteInputs ==
  { DeleteReq(GoodKey, f) :
      f \in { Undef, Str(<< >>), Str(UpEnv), Str(<< "x", "," >> \o UpEnv),
              Arr(<< UpEnv, UpEnv >>) }
            \cup { Str(p) : p \in returnedPaths } }
  \cup { DeleteReq(k, Str(UpEnv)) : k \in BadHeaders }

\* ------------------------------------------------------------------ Init
\* The disk when the server starts: its own directories and its .env file.
InitDisk ==
  /\ files = [p \in { EnvFile } |-> [owner |-> << 0, 0 >>, at |-> 0, name |-> << >>]]
  /\ dirs = { SubSeq(ServerDir, 1, 4), ServerDir, publicDir, uploadRoot }
  /\ reqs = [r \in ReqIds |-> Idle]

InitServer ==
  /\ now = 0
  /\ envKey \in EnvKeys
  /\ InitDisk

Init == InitServer /\ arg = << >> /\ ret = << >>

\* ------------------------------------------------------------ filesystem
\* p and the directories above it (mkdir with recursive: true makes them all).
ancestors(p) ==
  LET parts == split(stripTrailingSlashes(p), "/")
  IN  { joinWith(SubSeq(parts, 1, k), "/") : k \in 2..Len(parts) }

writeFile(fs, p, what) ==
  [q \in DOMAIN fs \cup { p } |-> IF q = p THEN what ELSE fs[q]]

removeFiles(fs, ps) == [q \in DOMAIN fs \ ps |-> fs[q]]

\* The outcome of unlink(p): "ok", or the code of the error it rejects with.
unlinkOutcome(fs, ds, p) ==
  IF p \in DOMAIN fs THEN "ok"
  ELSE IF stripTrailingSlashes(p) \in ds THEN "EISDIR"
  ELSE "ENOENT"

\* ---------------------------------------------------------------- upload
\* The upload handler (lines 73-86): status and files of the response.
noFilesUploaded(req) == ~req.hasFiles

uploadResponse(req) ==
  IF noFilesUploaded(req)
    THEN [status |-> 400, resFiles |-> << >>]
    ELSE [status |-> 200,
          resFiles |-> [i \in DOMAIN req.files |-> fileRecord(req.files[i])]]

arrives(r) ==
  reqs[r].pc = "idle" /\ (IF r = 1 THEN TRUE ELSE reqs[r - 1].pc # "idle")

\* POST /upload arrives: validateApiKey, then upload.array("files"), which
\* passes a body that is not multipart straight on to the handler and
\* otherwise sets req.files to [] and starts parsing the parts.
UploadRequest(r) ==
  /\ arrives(r)
  /\ \E req \in UploadInputs :
       reqs' = [reqs EXCEPT ![r] =
         IF rejects(req.key, envKey)
           THEN [req EXCEPT !.pc = "done", !.status = 403]
         ELSE IF ~req.multipart
           THEN [req EXCEPT !.pc = "done",
                            !.status = uploadResponse(req).status,
                            !.resFiles = uploadResponse(req).resFiles]
         ELSE [req EXCEPT !.pc = "multer", !.hasFiles = TRUE]]
  /\ UNCHANGED << now, envKey, files, dirs, arg, ret >>

\* The next part of the body is a text field "path": multer parses it into
\* req.body.  A body carries at most one such field.
MulterField(r) ==
  /\ reqs[r].pc = "multer"
  /\ reqs[r].bodyPath = Undef
  /\ reqs' = [reqs EXCEPT ![r].bodyPath = Str(BodyPath),
                          ![r].parsed = Append(@, "field")]
  /\ UNCHANGED << now, envKey, files, dirs, arg, ret >>

RECURSIVE SumLen(_, _)
SumLen(f, S) ==
  IF S = {} THEN 0
  ELSE LET x == CHOOSE y \in S : TRUE IN Len(f[x].files) + SumLen(f, S \ { x })

moreFiles(r) == reqs[r].pc = "multer" /\ SumLen(reqs, ReqIds) < MaxFiles

\* The next part of the body is a file under the field "files": multer
\* stores it: destination (with its mkdir), filename, and the write of
\* directory/filename.
MulterFile(r) ==
  /\ moreFiles(r)
  /\ \E originalname \in FileNames :
       LET req  == reqs[r]
           dest == destination(req.bodyPath, req.queryPath)
           file == storedFile(originalname, dest, now)
       IN  /\ dirs' = dirs \cup ancestors(dest)
           /\ files' = writeFile(files, file.path,
                                 [owner |-> << r, Len(req.files) + 1 >>,
                                  at |-> now, name |-> originalname])
           /\ reqs' = [reqs EXCEPT ![r].files = Append(@, file),
                                   ![r].parsed = Append(@, "file"),
                                   ![r].ops = @ \cup { << "mkdir", dest >>,
                                                       << "write", file.path >> }]
  /\ UNCHANGED << now, envKey, arg, ret >>

\* fs.mkdir fails (line 49): multer removes the files this request has
\* stored so far and the request ends with the error.
MulterMkdirError(r) ==
  /\ moreFiles(r)
  /\ LET req    == reqs[r]
         dest   == destination(req.bodyPath, req.queryPath)
         stored == { req.files[i].path : i \in DOMAIN req.files }
     IN  /\ files' = removeFiles(files, stored)
         /\ reqs' = [reqs EXCEPT ![r].pc = "done", ![r].status = 500,
                                 ![r].parsed = Append(@, "file"),
                                 ![r].ops = @ \cup { << "mkdir", dest >> }
                                              \cup { << "unlink", p >> : p \in stored }]
  /\ UNCHANGED << now, envKey, dirs, arg, ret >>

\* The body ends: the handler answers.
UploadHandler(r) ==
  /\ reqs[r].pc = "multer"
  /\ reqs' = [reqs EXCEPT ![r].pc = "done",
                          ![r].status = uploadResponse(reqs[r]).status,
                          ![r].resFiles = uploadResponse(reqs[r]).resFiles]
  /\ UNCHANGED << now, envKey, files, dirs, arg, ret >>

\* ---------------------------------------------------------------- delete
\* Promise.all over promises that catch their own rejection: it resolves
\* once every unlink has settled.
allSettledOrFirstError(results) ==
  \/ \A i \in DOMAIN results : results[i] # "pending"
  \/ \E i \in DOMAIN results : results[i] \notin { "pending", "ok" }

allSettled(results) == \A i \in DOMAIN results : results[i] # "pending"

\* results.filter(result instanceof Error)
errorIndexes(results) == { i \in DOMAIN results : results[i] # "ok" }

\* Lines 128-137: the status of the delete response.
deleteStatusAnySuccess(results) ==
  IF \A i \in DOMAIN results : results[i] # "ok" THEN 500 ELSE 200

deleteStatus(results) == IF errorIndexes(results) # {} THEN 500 ELSE 200

\* errors.map(error => error.message): one message per failure, in order.
RECURSIVE errorMessages(_, _)
errorMessages(results, targets) ==
  IF results = << >> THEN << >>
  ELSE (IF Head(results) # "ok"
          THEN << [code |-> Head(results), path |-> Head(targets)] >>
          ELSE << >>)
       \o errorMessages(Tail(results), Tail(targets))

\* DELETE /delete arrives: validateApiKey, then the handler up to the point
\* where every unlink has been started.
DeleteRequest(r) ==
  /\ arrives(r)
  /\ \E req \in DeleteInputs :
       reqs' = [reqs EXCEPT ![r] =
         IF rejects(req.key, envKey)
           THEN [req EXCEPT !.pc = "done", !.status = 403]
         ELSE IF ~truthy(req.filenames)
           THEN [req EXCEPT !.pc = "done", !.status = 400]
         ELSE LET targets == deleteTargets(req.filenames)
              IN  [req EXCEPT !.pc = "unlink",
                              !.targets = targets,
                              !.results = [i \in DOMAIN targets |-> "pending"],
                              !.existed = { << targets[i], files[targets[i]].owner >> :
                                            i \in { j \in DOMAIN targets :
                                                      targets[j] \in DOMAIN files } }]]
  /\ UNCHANGED << now, envKey, files, dirs, arg, ret >>

\* One started unlink completes; the unlinks of a request complete in any
\* order, interleaved with the other requests.
Unlink(r) ==
  /\ reqs[r].pc = "unlink"
  /\ \E i \in DOMAIN reqs[r].results :
       /\ reqs[r].results[i] = "pending"
       /\ LET p == reqs[r].targets[i]
              outcome == unlinkOutcome(files, dirs, p)
          IN  /\ files' = IF outcome = "ok" THEN removeFiles(files, { p }) ELSE files
              /\ reqs' = [reqs EXCEPT ![r].results[i] = outcome,
                                      ![r].ops = @ \cup { << "unlink", p >> }]
  /\ UNCHANGED << now, envKey, dirs, arg, ret >>

\* The .then of Promise.all: 500 with the messages, or 200.
DeleteThen(r) ==
  /\ reqs[r].pc = "unlink"
  /\ allSettled(reqs[r].results)
  /\ reqs' = [reqs EXCEPT ![r].pc = "done",
                          ![r].status = deleteStatus(reqs[r].results),
                          ![r].errors = errorMessages(reqs[r].results,
                                                      reqs[r].targets)]
  /\ UNCHANGED << now, envKey, files, dirs, arg, ret >>

\* A millisecond passes.
Tick ==
  /\ now < MaxNow
  /\ now' = now + 1
  /\ UNCHANGED << envKey, files, dirs, reqs, arg, ret >>

Next ==
  \/ Tick
  \/ \E r \in ReqIds : UploadRequest(r)
  \/ \E r \in ReqIds : MulterField(r)
  \/ \E r \in ReqIds : MulterFile(r)
  \/ \E r \in ReqIds : MulterMkdirError(r)
  \/ \E r \in ReqIds : UploadHandler(r)
  \/ \E r \in ReqIds : DeleteRequest(r)
  \/ \E r \in ReqIds : Unlink(r)
  \/ \E r \in ReqIds : DeleteThen(r)

Spec == Init /\ [][Next]_vars


\* ---------------------------------------- the pure functions, on their own
RECURSIVE SeqsUpTo(_, _)
SeqsUpTo(S, n) ==
  IF n = 0 THEN { << >> }
  ELSE LET shorter == SeqsUpTo(S, n - 1)
       IN  shorter \cup { Append(q, x) : q \in shorter, x \in S }

\* Characters of caller-supplied path values: a lower-case and an upper-case
\* letter, a digit, the separator, the dot, and the two characters outside
\* ASCII whose lower case holds an ASCII letter.
PathChars == { "a", "B", "7", "/", ".", "U+0130", "U+212A" }

\* Characters of original file names; multer hands the handler the name
\* without its directories, so no separator.
NameChars == { "a", "B", "7", ".", "-", " " }

MyFilePNG == << "M", "y", " ", "F", "i", "l", "e", ".", "P", "N", "G" >>

\* Values of Date.now() of one, two and ten digits.
Times == { 0, 7, 10, 1730678400 }

\* The ways a request carries the path value s: in the body, in the query,
\* in the query under an empty body field, in the body over a query value.
Placements(s) ==
  { [bodyPath |-> Str(s), queryPath |-> Undef],
    [bodyPath |-> Undef, queryPath |-> Str(s)],
    [bodyPath |-> Str(<< >>), queryPath |-> Str(s)],
    [bodyPath |-> Str(s), queryPath |-> Str(QueryPath)] }

NoResult == [stage |-> "none"]

\* The path value that reaches the normalizer.
userPathOf(a) ==
  IF truthy(a.bodyPath) THEN a.bodyPath.v
  ELSE IF truthy(a.queryPath) THEN a.queryPath.v ELSE << >>

InitDest ==
  /\ InitDisk
  /\ now = 0
  /\ envKey = GoodKey
  /\ arg \in UNION { Placements(s) : s \in SeqsUpTo(PathChars, MaxLen) }
  /\ ret = NoResult

\* storage.destination on the request's path value.
Destination ==
  /\ ret.stage = "none"
  /\ ret' = [stage |-> "destination",
             normalizedPath |-> normalizedPath(arg.bodyPath, arg.queryPath),
             uploadPath |-> destination(arg.bodyPath, arg.queryPath)]
  /\ UNCHANGED << now, envKey, files, dirs, reqs, arg >>

\* multer stores a file in that directory and the handler builds its record.
StoreRecord ==
  /\ ret.stage = "destination"
  /\ \E originalname \in FileNames :
       LET file == storedFile(originalname, ret.uploadPath, now)
       IN  ret' = [stage |-> "stored",
                   normalizedPath |-> ret.normalizedPath,
                   uploadPath |-> ret.uploadPath,
                   file |-> file,
                   record |-> fileRecord(file)]
  /\ UNCHANGED << now, envKey, files, dirs, reqs, arg >>

NextDest == Destination \/ StoreRecord

SpecDest == InitDest /\ [][NextDest]_vars

InitName ==
  /\ InitDisk
  /\ envKey = GoodKey
  /\ now \in Times
  /\ arg \in SeqsUpTo(NameChars, MaxLen) \cup { MyFilePNG }
  /\ ret = NoResult

\* storage.filename on the original name, at the current time.
Filename ==
  /\ ret.stage = "none"
  /\ ret' = [stage |-> "named", filename |-> filename(arg, now)]
  /\ UNCHANGED << now, envKey, files, dirs, reqs, arg >>

NextName == Filename

SpecName == InitName /\ [][NextName]_vars

\* ================================================================ claims
\* What validateApiKey is specified to reject: a header that is absent or
\* not exactly the configured key.
invalidKey(req) == req.key = Undef \/ req.key # envKey

received(r) == reqs[r].pc # "idle"

\* C1: a request to POST /upload or DELETE /delete whose x-api-key header is
\* absent or differs from the configured key is answered 403 at once and
\* performs no mkdir, write or unlink, whatever the other request does.
C1_InvalidKeyRejected ==
  \A r \in ReqIds :
    received(r) /\ invalidKey(reqs[r])
      => reqs[r].pc = "done" /\ reqs[r].status = 403 /\ reqs[r].ops = {}

\* C1 witness: a request with the key in the wrong letter case was answered
\* 403 while the other request, with the right key, has written to the disk.
C1_Witness ==
  \E r \in ReqIds, o \in ReqIds :
    /\ envKey = GoodKey
    /\ reqs[r].key = Str(<< "K" >>) /\ reqs[r].status = 403
    /\ reqs[o].key = GoodKey /\ reqs[o].ops # {}

\* C2: whatever the path value and wherever the request carries it, the
\* normalized subpath holds only lower-case ASCII alphanumerics and "/", the
\* destination directory is the upload root or below it, the stored file
\* lies in that directory, and the record's path names that file, inside the
\* upload root.
C2_DestinationInsideRoot ==
  /\ ret.stage \in { "destination", "stored" } =>
       /\ Range(ret.normalizedPath) \subseteq LowerAlnum \cup { "/" }
       /\ isInside(ret.uploadPath, uploadRoot)
  /\ ret.stage = "stored" =>
       /\ isInside(ret.file.path, uploadRoot)
       /\ dirname(ret.file.path) = stripTrailingSlashes(ret.uploadPath)
       /\ pathJoin(<< publicDir, ret.record.path >>) = ret.file.path

\* C2 witness: a path value that starts with "../" and names a directory was
\* normalized and a file was stored under it.
C2_Witness ==
  /\ ret.stage = "stored"
  /\ startsWith(userPathOf(arg), << ".", ".", "/" >>)
  /\ ret.normalizedPath \notin { << >>, << "/" >>, << "/", "/" >> }
  /\ ret.uploadPath # uploadRoot

\* The request sent no file part.
sentNoFile(req) == \A i \in DOMAIN req.parsed : req.parsed[i] # "file"

\* C3: an upload request with a valid key that carries no file is answered
\* 400 and causes no write and no directory creation.
C3_NoFilesIs400 ==
  \A r \in ReqIds :
    /\ reqs[r].kind = "upload" /\ reqs[r].pc = "done"
    /\ ~invalidKey(reqs[r]) /\ sentNoFile(reqs[r])
    => reqs[r].status = 400 /\ reqs[r].ops = {}

finishedDelete(r) ==
  reqs[r].kind = "delete" /\ reqs[r].pc = "done" /\ reqs[r].targets # << >>

\* C4: when a delete request has been answered, an unlink was attempted for
\* every listed path, and every listed file that existed when the request
\* arrived is gone (the path is free, or holds a file stored since), even
\* when the answer is an error because another listed path failed.
C4_EveryListedPathAttempted ==
  \A r \in ReqIds :
    finishedDelete(r) =>
      /\ \A i \in DOMAIN reqs[r].targets :
           << "unlink", reqs[r].targets[i] >> \in reqs[r].ops
      /\ \A e \in reqs[r].existed :
           e[1] \notin DOMAIN files \/ files[e[1]].owner # e[2]

\* C4 witness: a delete request was answered 500 because a listed path did
\* not exist, and a listed file that existed was removed by it.
C4_Witness ==
  \E r \in ReqIds :
    /\ finishedDelete(r) /\ reqs[r].status = 500
    /\ \E i \in DOMAIN reqs[r].results : reqs[r].results[i] = "ENOENT"
    /\ \E i \in DOMAIN reqs[r].results :
         /\ reqs[r].results[i] = "ok"
         /\ \E e \in reqs[r].existed : e[1] = reqs[r].targets[i]
         /\ reqs[r].targets[i] \notin DOMAIN files

failedIndexes(r) == { i \in DOMAIN reqs[r].results : reqs[r].results[i] # "ok" }

\* The k-th failed path of the request, in request order.
nthFailed(r, k) ==
  CHOOSE i \in failedIndexes(r) :
    Cardinality({ j \in failedIndexes(r) : j < i }) = k - 1

\* C5: a delete request with a non-empty list is answered 200 exactly when
\* every removal succeeded; otherwise it is answered 500 with one message
\* per failed removal, in request order.
C5_DeleteStatus ==
  \A r \in ReqIds :
    finishedDelete(r) =>
      /\ reqs[r].status \in { 200, 500 }
      /\ reqs[r].status = 200 <=> failedIndexes(r) = {}
      /\ Len(reqs[r].errors) = Cardinality(failedIndexes(r))
      /\ \A k \in DOMAIN reqs[r].errors :
           /\ reqs[r].errors[k].path = reqs[r].targets[nthFailed(r, k)]
           /\ reqs[r].errors[k].code = reqs[r].results[nthFailed(r, k)]

\* C5 witness: a delete request listing two paths was answered 500 with one
\* message, for the one path that failed.
C5_Witness ==
  \E r \in ReqIds :
    /\ finishedDelete(r) /\ reqs[r].status = 500
    /\ Len(reqs[r].targets) = 2 /\ Len(reqs[r].errors) = 1

\* The files a step writes over: present before and after, with new content.
overwritten == { p \in DOMAIN files \cap DOMAIN files' : files'[p] # files[p] }

\* C6 as stated: no step of an upload writes over a file that is present.
C6_NeverOverwrites == [][overwritten = {}]_vars

\* The part of a stored name after the timestamp.
sanitizedName(originalname) ==
  replaceRuns(basename(originalname, extname(originalname)), Alnum, "-")
  \o extname(originalname)

\* C6 amended: an upload writes over a present file only when that file was
\* named in the same millisecond from an original name with the same
\* sanitized base and extension; against every other file of the directory
\* its stored name is new.
C6_OverwritesOnlySameMillisecond ==
  [][\A p \in overwritten :
       /\ files[p].at = now
       /\ files'[p].at = now
       /\ sanitizedName(files[p].name) = sanitizedName(files'[p].name)]_vars

\* C6 witness: two uploads of the same original name into the same directory,
\* named in different milliseconds, are both on disk.
C6_Witness ==
  \E p \in DOMAIN files, q \in DOMAIN files :
    /\ p # q /\ dirname(p) = dirname(q)
    /\ files[p].name = files[q].name /\ files[p].name # << >>
    /\ files[p].at # files[q].at

\* The last "." of s, or 0.
lastDot(s) ==
  IF \A i \in DOMAIN s : s[i] # "." THEN 0
  ELSE CHOOSE i \in DOMAIN s : s[i] = "." /\ \A j \in (i + 1)..Len(s) : s[j] # "."

\* ^\d+<suffix>$
matchesDigitsThen(s, suffix) ==
  /\ endsWith(s, suffix)
  /\ Len(s) > Len(suffix)
  /\ \A i \in 1..(Len(s) - Len(suffix)) : s[i] \in Range(DigitChars)

\* C7 as stated: the extension runs from the last "." of the name, and "My
\* File.PNG" gives a name matching ^\d+-my-file\.PNG$.
C7_AsStated ==
  ret.stage = "named" =>
    LET cut == IF lastDot(arg) = 0 THEN Len(arg) + 1 ELSE lastDot(arg)
    IN  /\ ret.filename = toDigits(now) \o << "-" >>
                          \o replaceRuns(SubSeq(arg, 1, cut - 1), Alnum, "-")
                          \o SubSeq(arg, cut, Len(arg))
        /\ arg = MyFilePNG =>
             matchesDigitsThen(ret.filename,
               << "-", "m", "y", "-", "f", "i", "l", "e", ".", "P", "N", "G" >>)

\* C7 amended: the extension runs from the last "." of the name unless that
\* "." opens the name or the name is "..", and then there is none; it is kept
\* verbatim; the base keeps its letters and digits, in their case, and every
\* maximal run of other characters becomes one "-"; "My File.PNG" gives a
\* name matching ^\d+-My-File\.PNG$.
C7_FilenameShape ==
  ret.stage = "named" =>
    LET cut == IF lastDot(arg) <= 1 \/ arg = << ".", "." >>
                 THEN Len(arg) + 1 ELSE lastDot(arg)
        base == SubSeq(arg, 1, cut - 1)
        stem == SubSeq(ret.filename, Len(toDigits(now)) + 2,
                       Len(ret.filename) - (Len(arg) - cut + 1))
    IN  /\ ret.filename = toDigits(now) \o << "-" >>
                          \o replaceRuns(base, Alnum, "-")
                          \o SubSeq(arg, cut, Len(arg))
        /\ SelectSeq(stem, LAMBDA c : c \in Alnum)
             = SelectSeq(base, LAMBDA c : c \in Alnum)
        /\ \A i \in DOMAIN stem : stem[i] \in Alnum \cup { "-" }
        /\ \A i \in 1..(Len(stem) - 1) : ~(stem[i] = "-" /\ stem[i + 1] = "-")
        /\ arg = MyFilePNG =>
             matchesDigitsThen(ret.filename,
               << "-", "M", "y", "-", "F", "i", "l", "e", ".", "P", "N", "G" >>)

\* C7 witness: storage.filename was applied to "My File.PNG".
C7_Witness == ret.stage = "named" /\ arg = MyFilePNG

\* C8: all files of one upload request are stored in the directory derived
\* from the request's path value, whatever the order of the path field and
\* the file parts in the body.
C8_OneDestination ==
  \A r \in ReqIds :
    reqs[r].kind = "upload" /\ reqs[r].pc = "done" /\ reqs[r].status = 200 =>
      \A i \in DOMAIN reqs[r].files :
        reqs[r].files[i].destination
          = destination(reqs[r].bodyPath, reqs[r].queryPath)

\* C9: every file a delete request attempts to unlink lies inside the upload
\* root, and no file outside the upload root is ever removed.
C9_UnlinkInsideUploadRoot ==
  /\ \A r \in ReqIds :
       reqs[r].kind = "delete" =>
         \A op \in reqs[r].ops : op[1] = "unlink" => isInside(op[2], uploadRoot)
  /\ EnvFile \in DOMAIN files

\* C10: sending the path of an upload record as the sole filenames value of
\* an authorized delete request removes exactly that stored file and is
\* answered 200.
C10_RoundTrip ==
  \A u \in ReqIds, d \in ReqIds :
    \A i \in DOMAIN reqs[u].resFiles :
      /\ reqs[u].kind = "upload" /\ reqs[u].status = 200
      /\ reqs[d].kind = "delete" /\ reqs[d].pc = "done" /\ ~invalidKey(reqs[d])
      /\ reqs[d].filenames = Str(reqs[u].resFiles[i].path)
      => /\ reqs[d].status = 200
         /\ reqs[u].files[i].path \notin DOMAIN files
         /\ { op \in reqs[d].ops : op[1] = "unlink" }
              = { << "unlink", reqs[u].files[i].path >> }

====
